---- MODULE Spec2Model ----
(***************************************************************************)
(* Model of the ping-pong ring driver: src/main.rs (fn main) and the       *)
(* hand-written two-player driver tests/ping_pong.rs (fn test_ping_pong).  *)
(* The simulation engine (crate `sim`) is an external collaborator: every  *)
(* call into it is logged in `calls`, and what it returns is a             *)
(* nondeterministic choice over the outcomes its signature allows.         *)
(***************************************************************************)
EXTENDS Integers, Sequences, FiniteSets, TLC

\* ---------------------------------------------------------------- bounds
MaxPlayers == 11
MaxTime == 2
MaxIter == 2
MaxOvershoot == 1
MaxTransitions == 2
MaxRecords == 2

\* ------------------------------------------------------- program constants
DefaultPlayers == 2
PadWidth == 2
CheckExitCode == 1
PanicExitCode == 101
TestEndTime == 100
TestPlayers == 2

\* ------------------------------------------------------------ Option<T>
None == [some |-> FALSE, val |-> 0]
Some(v) == [some |-> TRUE, val |-> v]

\* --------------------------------------------------- format!("{:02}", n)
Digit(d) ==
  CASE d = 0 -> "0" [] d = 1 -> "1" [] d = 2 -> "2" [] d = 3 -> "3"
    [] d = 4 -> "4" [] d = 5 -> "5" [] d = 6 -> "6" [] d = 7 -> "7"
    [] d = 8 -> "8" [] d = 9 -> "9"

RECURSIVE Dec(_)
Dec(n) == IF n < 10 THEN Digit(n) ELSE Dec(n \div 10) \o Digit(n % 10)

RECURSIVE ZeroPad(_, _)
ZeroPad(s, w) == IF Len(s) >= w THEN s ELSE ZeroPad("0" \o s, w)

PlayerName(n) == "player-" \o ZeroPad(Dec(n), PadWidth)

\* ------------------------------------------------------ engine data types
Processor(id) ==
  [id |-> id, kind |-> "Processor", ports_in |-> <<"receive">>,
   ports_out |-> <<"send">>, store_records |-> FALSE]

Storage(id) ==
  [id |-> id, kind |-> "Storage", ports_in |-> <<"put", "get">>,
   ports_out |-> <<"stored">>, store_records |-> TRUE]

Connector(id, source, target, sport, tport) ==
  [id |-> id, source_id |-> source, target_id |-> target,
   source_port |-> sport, target_port |-> tport]

Message(source, sport, target, tport, time, content) ==
  [source_id |-> source, source_port |-> sport, target_id |-> target,
   target_port |-> tport, time |-> time, content |-> content]

Call(op, arg, res) == [op |-> op, arg |-> arg, res |-> res]

\* ------------------------------------------------- topology construction
\* main.rs: the i-th closure call of the models iterator, i in 0..N-1
RingModel(i) == Processor(PlayerName(i + 1))

\* slip: the 0-based index is wrapped but not shifted back to an ordinal
NextPlayer_Mut(i, n) == (i + 1) % n

\* main.rs: next_player for the i-th connector, i in 0..N-1
NextPlayer(i, n) == ((i + 1) % n) + 1

RingConnector(i, n) ==
  LET source_player == PlayerName(i + 1)
      target_player == PlayerName(NextPlayer(i, n))
  IN Connector(source_player \o " to " \o target_player,
               source_player, target_player, "send", "receive")

StoreModel == Storage("Store")

\* slip: the tap is wired to the first player instead of the last
TapSource_Mut(n) == PlayerName(1)

\* main.rs: source_player of the connector into the Store
TapSource(n) == PlayerName(n)

StoreConnector(n) ==
  LET source_player == TapSource(n)
      target_player == "Store"
  IN Connector(source_player \o " to " \o target_player,
               source_player, target_player, "send", "put")

InitialMessage == Message("manual", "manual", "player-01", "receive", 0, "Ball")

TestModels == <<Processor("player-01"), Processor("player-02")>>

TestConnectors ==
  <<Connector("p1 to p2", "player-01", "player-02", "send", "receive"),
    Connector("p2 to p1", "player-02", "player-01", "send", "receive")>>

\* ------------------------------------------------------------ control flow
\* slip: the error arm logs but does not exit
CheckErrPc_Mut == "inject"

\* main.rs: the Err arm of the check match ends in std::process::exit(1)
CheckErrPc == "exited"

\* slip: the diagram branch is ignored and the run always starts
AfterCheckOk_NoDiagram(diagram) == "inject"

\* slip: the seeding block is skipped
AfterCheckOk_NoSeed(diagram) == IF diagram THEN "diagram" ELSE "run"

\* main.rs: if args.diagram { .. } else { .. }
AfterCheckOk(diagram) == IF diagram THEN "diagram" ELSE "inject"

\* slip: the iteration count is handed to step_until as a time
Dispatch_Mut(end_time, iterations) ==
  IF end_time.some THEN Call("step_until", end_time.val, "")
  ELSE IF iterations.some THEN Call("step_until", iterations.val, "")
  ELSE Call("panic", 0, "")

\* main.rs: match (args.end_time, args.iterations)
Dispatch(end_time, iterations) ==
  IF end_time.some THEN Call("step_until", end_time.val, "")
  ELSE IF iterations.some THEN Call("step_n", iterations.val, "")
  ELSE Call("panic", 0, "")

\* ------------------------------------------------------------------ state
VARIABLES prog, args, pc, models, connectors, simModels, simConnectors,
          messages, clock, transitions, calls, stdout

vars == <<prog, args, pc, models, connectors, simModels, simConnectors,
          messages, clock, transitions, calls, stdout>>

OptTimes == {None} \cup {Some(t) : t \in 0..MaxTime}
OptIters == {None} \cup {Some(k) : k \in 0..MaxIter}

ArgsSet ==
  [num_players : 0..MaxPlayers, end_time : OptTimes,
   iterations : OptIters, diagram : BOOLEAN]

DefaultArgs ==
  [num_players |-> DefaultPlayers, end_time |-> None,
   iterations |-> None, diagram |-> FALSE]

Init ==
  /\ prog \in {"main", "test"}
  /\ args \in (IF prog = "main" THEN ArgsSet ELSE {DefaultArgs})
  /\ pc = "start"
  /\ models = <<>>
  /\ connectors = <<>>
  /\ simModels = <<>>
  /\ simConnectors = <<>>
  /\ messages = <<>>
  /\ clock = 0
  /\ transitions = 0
  /\ calls = <<>>
  /\ stdout = <<>>

N == args.num_players

\* --------------------------------------------------------- engine contract
\* step_until(t): at least one step, returns once the clock is >= t
StepUntilOutcomes(t) ==
  {[clock |-> c, transitions |-> n] :
     c \in (IF t > clock THEN t ELSE clock)..((IF t > clock THEN t ELSE clock) + MaxOvershoot),
     n \in 1..MaxTransitions}

\* step_n(k): exactly k steps, whatever logical time they span
StepNOutcomes(k) ==
  {[clock |-> c, transitions |-> k] : c \in clock..(clock + MaxOvershoot)}

\* ---------------------------------------------------------------- fn main
BuildModels ==
  /\ prog = "main" /\ pc = "start"
  /\ models' = [j \in 1..N |-> RingModel(j - 1)]
  /\ pc' = "models_built"
  /\ UNCHANGED <<prog, args, connectors, simModels, simConnectors, messages,
                 clock, transitions, calls, stdout>>

BuildConnectors ==
  /\ prog = "main" /\ pc = "models_built"
  /\ connectors' = [j \in 1..N |-> RingConnector(j - 1, N)]
  /\ pc' = "ring_built"
  /\ UNCHANGED <<prog, args, models, simModels, simConnectors, messages,
                 clock, transitions, calls, stdout>>

PushStore ==
  /\ prog = "main" /\ pc = "ring_built"
  /\ models' = Append(models, StoreModel)
  /\ pc' = "store_pushed"
  /\ UNCHANGED <<prog, args, connectors, simModels, simConnectors, messages,
                 clock, transitions, calls, stdout>>

PushStoreConnector ==
  /\ prog = "main" /\ pc = "store_pushed"
  /\ connectors' = Append(connectors, StoreConnector(N))
  /\ pc' = "descriptor_built"
  /\ UNCHANGED <<prog, args, models, simModels, simConnectors, messages,
                 clock, transitions, calls, stdout>>

Post ==
  /\ prog = "main" /\ pc = "descriptor_built"
  /\ simModels' = models
  /\ simConnectors' = connectors
  /\ calls' = Append(calls, Call("post", 0, "Ok"))
  /\ pc' = "posted"
  /\ UNCHANGED <<prog, args, models, connectors, messages, clock,
                 transitions, stdout>>

Check ==
  /\ prog = "main" /\ pc = "posted"
  /\ \E result \in {"Ok", "Err"} :
       /\ calls' = Append(calls, Call("check", 0, result))
       /\ pc' = IF result = "Ok" THEN AfterCheckOk(args.diagram) ELSE CheckErrPc
  /\ UNCHANGED <<prog, args, models, connectors, simModels, simConnectors,
                 messages, clock, transitions, stdout>>

Diagram ==
  /\ prog = "main" /\ pc = "diagram"
  /\ calls' = Append(calls, Call("generate_dot_graph", 0, "Ok"))
  /\ stdout' = Append(stdout, [line |-> "dot_graph", count |-> 0])
  /\ pc' = "done"
  /\ UNCHANGED <<prog, args, models, connectors, simModels, simConnectors,
                 messages, clock, transitions>>

Inject ==
  /\ prog = "main" /\ pc = "inject"
  /\ messages' = Append(messages, InitialMessage)
  /\ calls' = Append(calls, Call("inject_input", 0, "Ok"))
  /\ pc' = "run"
  /\ UNCHANGED <<prog, args, models, connectors, simModels, simConnectors,
                 clock, transitions, stdout>>

StepUntil ==
  /\ prog = "main" /\ pc = "run"
  /\ LET d == Dispatch(args.end_time, args.iterations) IN
       /\ d.op = "step_until"
       /\ \/ \E o \in StepUntilOutcomes(d.arg) :
               /\ calls' = Append(calls, [d EXCEPT !.res = "Ok"])
               /\ clock' = o.clock
               /\ transitions' = o.transitions
               /\ pc' = "stepped"
          \/ /\ calls' = Append(calls, [d EXCEPT !.res = "Err"])
             /\ pc' = "panicked"
             /\ UNCHANGED <<clock, transitions>>
  /\ UNCHANGED <<prog, args, models, connectors, simModels, simConnectors,
                 messages, stdout>>

StepN ==
  /\ prog = "main" /\ pc = "run"
  /\ LET d == Dispatch(args.end_time, args.iterations) IN
       /\ d.op = "step_n"
       /\ \/ \E o \in StepNOutcomes(d.arg) :
               /\ calls' = Append(calls, [d EXCEPT !.res = "Ok"])
               /\ clock' = o.clock
               /\ transitions' = o.transitions
               /\ pc' = "stepped"
          \/ /\ calls' = Append(calls, [d EXCEPT !.res = "Err"])
             /\ pc' = "panicked"
             /\ UNCHANGED <<clock, transitions>>
  /\ UNCHANGED <<prog, args, models, connectors, simModels, simConnectors,
                 messages, stdout>>

PanicNoCriterion ==
  /\ prog = "main" /\ pc = "run"
  /\ Dispatch(args.end_time, args.iterations).op = "panic"
  /\ pc' = "panicked_no_criterion"
  /\ UNCHANGED <<prog, args, models, connectors, simModels, simConnectors,
                 messages, clock, transitions, calls, stdout>>

Extract ==
  /\ prog = "main" /\ pc = "stepped"
  /\ calls' = calls \o <<Call("get_models", 0, "Ok"), Call("records", 0, "Ok")>>
  /\ \E c \in 0..MaxRecords :
       stdout' = Append(stdout, [line |-> "round-trip count", count |-> c])
  /\ pc' = "done"
  /\ UNCHANGED <<prog, args, models, connectors, simModels, simConnectors,
                 messages, clock, transitions>>

\* ------------------------------------------------------ fn test_ping_pong
TestBuild ==
  /\ prog = "test" /\ pc = "start"
  /\ models' = TestModels
  /\ connectors' = TestConnectors
  /\ pc' = "t_built"
  /\ UNCHANGED <<prog, args, simModels, simConnectors, messages, clock,
                 transitions, calls, stdout>>

TestPost ==
  /\ prog = "test" /\ pc = "t_built"
  /\ simModels' = models
  /\ simConnectors' = connectors
  /\ calls' = Append(calls, Call("post", 0, "Ok"))
  /\ pc' = "t_posted"
  /\ UNCHANGED <<prog, args, models, connectors, messages, clock,
                 transitions, stdout>>

TestInject ==
  /\ prog = "test" /\ pc = "t_posted"
  /\ messages' = Append(messages, InitialMessage)
  /\ calls' = Append(calls, Call("inject_input", 0, "Ok"))
  /\ pc' = "t_seeded"
  /\ UNCHANGED <<prog, args, models, connectors, simModels, simConnectors,
                 clock, transitions, stdout>>

TestCheck ==
  /\ prog = "test" /\ pc = "t_seeded"
  /\ \E result \in {"Ok", "Err"} :
       /\ calls' = Append(calls, Call("check", 0, result))
       /\ pc' = IF result = "Ok" THEN "t_checked" ELSE "panicked"
  /\ UNCHANGED <<prog, args, models, connectors, simModels, simConnectors,
                 messages, clock, transitions, stdout>>

TestStepUntil ==
  /\ prog = "test" /\ pc = "t_checked"
  /\ \/ \E o \in StepUntilOutcomes(TestEndTime) :
          /\ calls' = Append(calls, Call("step_until", TestEndTime, "Ok"))
          /\ clock' = o.clock
          /\ transitions' = o.transitions
          /\ pc' = "t_stepped"
     \/ /\ calls' = Append(calls, Call("step_until", TestEndTime, "Err"))
        /\ pc' = "panicked"
        /\ UNCHANGED <<clock, transitions>>
  /\ UNCHANGED <<prog, args, models, connectors, simModels, simConnectors,
                 messages, stdout>>

TestFinish ==
  /\ prog = "test" /\ pc = "t_stepped"
  /\ pc' = "done"
  /\ UNCHANGED <<prog, args, models, connectors, simModels, simConnectors,
                 messages, clock, transitions, calls, stdout>>

Next ==
  \/ BuildModels
  \/ BuildConnectors
  \/ PushStore
  \/ PushStoreConnector
  \/ Post
  \/ Check
  \/ Diagram
  \/ Inject
  \/ StepUntil
  \/ StepN
  \/ PanicNoCriterion
  \/ Extract
  \/ TestBuild
  \/ TestPost
  \/ TestInject
  \/ TestCheck
  \/ TestStepUntil
  \/ TestFinish

Spec == Init /\ [][Next]_vars

\* ------------------------------------------------------ derived quantities
Terminated == pc \in {"done", "exited", "panicked", "panicked_no_criterion"}

ExitCode ==
  CASE pc = "exited" -> CheckExitCode
    [] pc \in {"panicked", "panicked_no_criterion"} -> PanicExitCode
    [] OTHER -> 0

Ops(op) == {i \in 1..Len(calls) : calls[i].op = op}

Stepping == Ops("step_until") \cup Ops("step_n")

Extraction == Ops("get_models") \cup Ops("records")

RingBuilt ==
  \/ prog = "main" /\ pc \notin {"start", "models_built"}
  \/ prog = "test" /\ pc # "start"

RingSize == IF prog = "main" THEN N ELSE TestPlayers

Targets(conns, n, a) == {i \in 1..n : conns[i].source_id = a}

Sources(conns, n, a) == {i \in 1..n : conns[i].target_id = a}

Succ(conns, n, a) == conns[CHOOSE i \in Targets(conns, n, a) : TRUE].target_id

RECURSIVE Walk(_, _, _, _)
Walk(conns, n, a, k) ==
  IF k = 0 THEN a ELSE Walk(conns, n, Succ(conns, n, a), k - 1)

OneCycle(ms, conns, n) ==
  LET names == {ms[i].id : i \in 1..n} IN
    /\ \A a \in names : Cardinality(Targets(conns, n, a)) = 1
    /\ \A a \in names : Cardinality(Sources(conns, n, a)) = 1
    /\ {Walk(conns, n, ms[1].id, k) : k \in 0..(n - 1)} = names
    /\ \A k \in 1..(n - 1) : Walk(conns, n, ms[1].id, k) # ms[1].id
    /\ Walk(conns, n, ms[1].id, n) = ms[1].id

\* ------------------------------------------------------------------ claims

\* C1: once the ring is built it has exactly N agents player-01..player-N
\* and N connectors, connector i going from player-i 'send' to
\* player-((i mod N)+1) 'receive'; for N >= 2 the connectors are one directed
\* cycle through every agent, for N = 1 a self-loop, for N = 0 both are empty.
C1_Ring ==
  RingBuilt =>
    LET n == RingSize IN
      /\ Len(models) >= n /\ Len(connectors) >= n
      /\ (pc \in {"ring_built", "t_built"} =>
            Len(models) = n /\ Len(connectors) = n)
      /\ \A i \in 1..n :
            /\ models[i].id = PlayerName(i)
            /\ models[i].ports_in = <<"receive">>
            /\ models[i].ports_out = <<"send">>
      /\ (n >= 1 => models[1].id = "player-01")
      /\ (n >= 10 => models[10].id = "player-10")
      /\ Cardinality({models[i].id : i \in 1..n}) = n
      /\ \A i \in 1..n :
            /\ connectors[i].source_id = models[i].id
            /\ connectors[i].source_port = "send"
            /\ connectors[i].target_id = models[(i % n) + 1].id
            /\ connectors[i].target_port = "receive"
      /\ (n >= 2 => OneCycle(models, connectors, n))
      /\ (n = 1 => connectors[1].source_id = connectors[1].target_id)
      /\ (n = 0 /\ pc = "ring_built" => models = <<>> /\ connectors = <<>>)

C1_Witness ==
  /\ prog = "main" /\ pc = "ring_built" /\ N >= 10
  /\ Len(connectors) = N
  /\ connectors[N].target_id = "player-01"

NeitherSupplied == ~args.end_time.some /\ ~args.iterations.some

BothSupplied == args.end_time.some /\ args.iterations.some

CheckFailed == \E i \in Ops("check") : calls[i].res = "Err"

CheckPassed == \E i \in Ops("check") : calls[i].res = "Ok"

HasStore(ms) == \E i \in 1..Len(ms) : ms[i].id = "Store"

FeedsStore(conns) == \E i \in 1..Len(conns) : conns[i].target_id = "Store"

\* C2: with neither an end time nor an iteration count (diagram off) the
\* run has failed without a single engine call having been made before it.
C2_FailsBeforeEngine ==
  (prog = "main" /\ NeitherSupplied /\ ~args.diagram
     /\ pc = "panicked_no_criterion") => calls = <<>>

\* C3: for N = 0 attaching the tap is refused: no engine call occurs, and
\* no descriptor holding the tap agent or a tap connector reaches the
\* engine's constructor or checker.
C3_EmptyRingTapRejected ==
  (prog = "main" /\ N = 0) =>
    /\ calls = <<>>
    /\ ~HasStore(simModels) /\ ~FeedsStore(simConnectors)

\* C4: after a failed check nothing is injected, stepped, drawn or
\* extracted, and the process has terminated with a non-zero status.
C4_CheckFailureStops ==
  (prog = "main" /\ CheckFailed) =>
    /\ Ops("inject_input") = {} /\ messages = <<>>
    /\ Stepping = {}
    /\ Ops("generate_dot_graph") = {} /\ stdout = <<>>
    /\ Extraction = {}
    /\ Terminated /\ ExitCode # 0

C4_Witness ==
  /\ prog = "main" /\ CheckFailed /\ pc = "exited" /\ ExitCode = 1
  /\ ~args.diagram /\ args.end_time.some

\* C5: when both an end time and an iteration count are supplied no engine
\* call is made and in particular no stepping happens.
C5_AmbiguousCriterionRejected ==
  (prog = "main" /\ BothSupplied) => (calls = <<>> /\ Stepping = {})

RunReturned ==
  \/ prog = "main" /\ ~args.diagram /\ pc \in {"stepped", "done"}
  \/ prog = "test" /\ pc \in {"t_stepped", "done"}

TheStep == calls[CHOOSE i \in Stepping : TRUE]

BuildFirst ==
  \A i \in 1..Len(calls) : calls[i].op # "post" => \E j \in Ops("post") : j < i

SeedAfterValidation ==
  \A i \in Ops("inject_input") :
    \E j \in Ops("check") : j < i /\ calls[j].res = "Ok"

RunAfterValidationAndSeed ==
  \A s \in Stepping :
    /\ \E j \in Ops("check") : j < s /\ calls[j].res = "Ok"
    /\ \E i \in Ops("inject_input") : i < s
    /\ \A i \in Ops("inject_input") : i < s
    /\ messages = <<InitialMessage>>

ExtractAfterRun ==
  \A e \in Extraction : \E s \in Stepping : s < e /\ calls[s].res = "Ok"

C8_DiagramOnly ==
  (prog = "main" /\ args.diagram /\ CheckPassed) =>
    /\ Ops("inject_input") = {} /\ messages = <<>>
    /\ Stepping = {}
    /\ Extraction = {}
    /\ pc \in {"diagram", "done"}
    /\ (pc = "done" =>
          /\ stdout = <<[line |-> "dot_graph", count |-> 0]>>
          /\ Cardinality(Ops("generate_dot_graph")) = 1
          /\ ExitCode = 0)

C8_Witness ==
  /\ prog = "main" /\ args.diagram /\ NeitherSupplied /\ CheckPassed
  /\ pc = "done" /\ Len(stdout) = 1 /\ stdout[1].line = "dot_graph"

TapAttached ==
  prog = "main"
    /\ pc \notin {"start", "models_built", "ring_built", "store_pushed"}

C9_State ==
  (TapAttached /\ N >= 1) =>
    /\ Len(models) = N + 1 /\ Len(connectors) = N + 1
    /\ models[N + 1].id = "Store"
    /\ models[N + 1].kind = "Storage"
    /\ models[N + 1].ports_in = <<"put", "get">>
    /\ models[N + 1].ports_out = <<"stored">>
    /\ \A i \in 1..N : models[i].id # "Store"
    /\ connectors[N + 1].source_id = models[N].id
    /\ connectors[N + 1].source_port = "send"
    /\ connectors[N + 1].target_id = "Store"
    /\ connectors[N + 1].target_port = "put"
    /\ \A i \in 1..N : connectors[i].target_id # "Store"

C9_Frame ==
  (prog = "main" /\ pc \notin {"start", "models_built"}) =>
    /\ SubSeq(models', 1, N) = SubSeq(models, 1, N)
    /\ SubSeq(connectors', 1, N) = SubSeq(connectors, 1, N)

====
